---- MODULE Spec2Model ----
(***************************************************************************)
(* Model of spotify_info (src/src/lib.rs): the mio/tungstenite Listener,   *)
(* its blocking iterator ListenerIter, the WebsocketConnection frame       *)
(* reader and the text-frame decoder.                                      *)
(*                                                                         *)
(* Text is a sequence of one-character strings, so that split(';') and     *)
(* parse::<u32>() are computed the way the code computes them.             *)
(***************************************************************************)
EXTENDS Integers, Sequences, FiniteSets, TLC

(* ------------------------------ bounds --------------------------------- *)
\* inbound TCP connections the peer side opens during a run
MaxConns == 2
\* application frames a peer sends on one connection (after its handshake)
MaxFrames == 2
\* fields of a generated text frame (decoder specification)
MaxFields == 7
\* integer codes handed to State::from_u32 (decoder specification)
MaxCode == 5
\* updates the writer makes to the shared snapshot (handle specification)
MaxUpdates == 2
\* threads that read the shared snapshot (handle specification)
MaxReaders == 2

(* --------------------------- program constants ------------------------- *)
SERVER == 0
CLIENT == 1
\* u32::MAX = 4294967295, the largest value parse::<u32>() accepts, kept as
\* two decimal limbs of five digits (the checker's integers are narrower)
Limb == 100000
U32MaxHi == 42949
U32MaxLo == 67295
\* data.len() < 6
MinFields == 6

(* ------------------------------- text ---------------------------------- *)
Semi == ";"
Digits == <<"0", "1", "2", "3", "4", "5", "6", "7", "8", "9">>

DigitChars == {Digits[i] : i \in 1..10}

DigitVal(ch) == (CHOOSE i \in 1..10 : Digits[i] = ch) - 1

\* the texts the decoder specification puts into the fields of a frame
FieldTexts ==
  { <<>>, <<"2">>, <<"1">>, <<"x">>, <<"N", "O", "N", "E">> }

\* fields joined by ';' (what the producer writes)
RECURSIVE Join(_)
Join(fs) ==
  IF Len(fs) = 0 THEN <<>>
  ELSE IF Len(fs) = 1 THEN fs[1]
  ELSE fs[1] \o <<Semi>> \o Join(Tail(fs))

\* msg.split(';').collect::<Vec<_>>(): the pieces between the delimiters, one
\* more than there are delimiters (so at least one, possibly empty)
Split(s) ==
  LET semis == {i \in 1..Len(s) : s[i] = Semi}
      cuts  == semis \cup {0, Len(s) + 1}
      \* the k-th smallest cut
      Cut(k) == CHOOSE p \in cuts : Cardinality({q \in cuts : q < p}) = k - 1
  IN [k \in 1..(Cardinality(semis) + 1) |-> SubSeq(s, Cut(k) + 1, Cut(k + 1) - 1)]

\* the digits of a u32 literal, accumulated in two limbs with u32's overflow
\* check; -1 is Err. A value of Limb or more is handed on as Limb: the code
\* only compares the parsed value with 1 and 2.
RECURSIVE ParseDigits(_, _, _)
ParseDigits(s, hi, lo) ==
  IF Len(s) = 0 THEN (IF hi = 0 THEN lo ELSE Limb)
  ELSE IF s[1] \notin DigitChars THEN -1
  ELSE LET l  == lo * 10 + DigitVal(s[1])
           h  == hi * 10 + (l \div Limb)
           l2 == l % Limb
       IN IF h > U32MaxHi \/ (h = U32MaxHi /\ l2 > U32MaxLo) THEN -1
          ELSE ParseDigits(Tail(s), h, l2)

\* str::parse::<u32>(): optional leading '+', at least one digit; -1 is Err
ParseU32(s) ==
  IF Len(s) = 0 THEN -1
  ELSE IF s[1] = "+" THEN (IF Len(s) = 1 THEN -1 ELSE ParseDigits(Tail(s), 0, 0))
  ELSE ParseDigits(s, 0, 0)

\* Result::unwrap_or(0)
UnwrapOr0(r) == IF r < 0 THEN 0 ELSE r

(* ------------------------------ decoder -------------------------------- *)
\* mutant of from_u32: the two codes swapped
from_u32_swapped(n) ==
  IF n = 2 THEN "Paused" ELSE IF n = 1 THEN "Playing" ELSE "Stopped"

\* State::from_u32
from_u32(n) ==
  IF n = 2 THEN "Playing" ELSE IF n = 1 THEN "Paused" ELSE "Stopped"

\* Option<String>
Some(x) == <<x>>
None == <<>>

\* the Info built from the split fields (data[0] is data[1] here)
MakeInfo(data) ==
  [ state          |-> from_u32(UnwrapOr0(ParseU32(data[1]))),
    title          |-> data[2],
    album          |-> data[3],
    artist         |-> <<data[4]>>,
    cover_url      |-> Some(data[5]),
    background_url |-> Some(data[6]) ]

\* items of the iterator: Option<Result<Info, MessageError>>
ItemOk(info) == [kind |-> "Ok", val |-> <<info>>]
ItemInvalid == [kind |-> "Err", val |-> <<"Invalid">>]

\* mutants of DecodeText: an off-by-one length check; a strict numeric field
DecodeText_short(msg) ==
  LET data == Split(msg)
  IN IF Len(data) < MinFields + 1 THEN ItemInvalid ELSE ItemOk(MakeInfo(data))

DecodeText_strict(msg) ==
  LET data == Split(msg)
  IN IF Len(data) < MinFields \/ ParseU32(data[1]) < 0 THEN ItemInvalid
     ELSE ItemOk(MakeInfo(data))

\* the Message::Text arm of WebsocketConnection::next
DecodeText(msg) ==
  LET data == Split(msg)
  IN IF Len(data) < MinFields THEN ItemInvalid ELSE ItemOk(MakeInfo(data))

(* ------------------------------- state --------------------------------- *)
VARIABLES
  is_closed,      \* Handle.is_closed, shared by every clone of the Handle
  pc,             \* where the consumer thread is: "new" (no iterator yet),
                  \* "idle" (between calls of next), or a point inside next
  stream,         \* ListenerIter.stream: 0 is None, else the connection held
  connection,     \* ListenerIter.connection and its socket
  events,         \* Listener.events: the batch the last poll returned
  evIdx,          \* position of the `for event in &events` loop
  backlog,        \* connections waiting in the bound socket's accept queue
  connState,      \* per connection: unused, pending, aborted (by the peer,
                  \* before the accept), refused (the accept failed),
                  \* accepted, dropped (the stream was replaced)
  inbox,          \* per connection: what the peer sent and was not read yet
  sent,           \* per connection: number of items the peer has sent
  arrived,        \* per connection: everything the peer has sent, in order
  peerClosed,     \* per connection: the peer shut its side of the TCP stream
  serverEdge,     \* edge-triggered readiness pending for token SERVER
  clientEdge,     \* edge-triggered readiness pending for token CLIENT
  lastRet,        \* what the last call of next returned
  yielded,        \* the Some(..) items returned from the connection held,
                  \* in order, each with the frame it was decoded from
  call,           \* what the running call of next saw and did
  listenerCloseCalled, \* Listener::close() has been called
  dfields,        \* decoder specification: the fields the producer joins
  dframe,         \* decoder specification: the text frame
  dcode,          \* decoder specification: the integer code
  dout,           \* decoder specification: results of decoding
  dpc,            \* decoder specification: what has been applied
  hcell,          \* handle specification: the snapshot cell
  hlock,          \* handle specification: owner of the cell's lock, 0 if free
  hupd,           \* handle specification: updates the writer has begun
  hwpc,           \* handle specification: the writer's position
  hrpc,           \* handle specification: each reader's position
  hbuf,           \* handle specification: each reader's copy in progress
  hseen           \* handle specification: what each reader's last read returned

vars ==
  << is_closed, pc, stream, connection, events, evIdx, backlog, connState,
     inbox, sent, arrived, peerClosed, serverEdge, clientEdge, lastRet,
     yielded, call, listenerCloseCalled, dfields, dframe, dcode, dout, dpc,
     hcell, hlock, hupd, hwpc, hrpc, hbuf, hseen >>

decVars == << dfields, dframe, dcode, dout, dpc >>

handleVars == << hcell, hlock, hupd, hwpc, hrpc, hbuf, hseen >>

envVars == << backlog, connState, inbox, sent, arrived, peerClosed >>

Conns == 1..MaxConns

(* --------------------------- what peers send --------------------------- *)
Item(k, body) == [k |-> k, body |-> body]

HsOk == Item("hs_ok", <<>>)
HsBad == Item("hs_bad", <<>>)
Binary == Item("binary", <<>>)
CloseFrame == Item("close", <<>>)

\* "2;t;a;r;c;NONE": six fields, state Playing
TextGood ==
  Join(<< <<"2">>, <<"t">>, <<"a">>, <<"r">>, <<"c">>, <<"N", "O", "N", "E">> >>)
\* "2;t": too few fields
TextShort == Join(<< <<"2">>, <<"t">> >>)

Handshakes == {HsOk, HsBad}

AppItems ==
  { Item("text", TextGood), Item("text", TextShort),
    Binary, CloseFrame }

(* ------------------------------ helpers -------------------------------- *)
NoConnection == [some |-> FALSE, socket |-> "none"]
FreshConnection == [some |-> TRUE, socket |-> "none"]

NoCall == [closed |-> FALSE, lclosed |-> FALSE, accepted |-> FALSE, read |-> FALSE]

Ret(kind, val, why, conn) ==
  [kind |-> kind, val |-> val, why |-> why, closed |-> is_closed, conn |-> conn]

NotReturned == [kind |-> "Pending", val |-> <<>>, why |-> "", closed |-> FALSE, conn |-> 0]

\* mutant of should_close: the flag is never looked at
should_close_never == FALSE

\* let should_close = || self.listener.handle.is_closed.load(SeqCst)
should_close == is_closed

\* the mio event for a token
ServerEvent == [token |-> SERVER, readable |-> TRUE, read_closed |-> FALSE]

\* mutant of ClientEvent: the accepted stream is registered under another token
ClientEvent_otherToken ==
  [ token       |-> CLIENT + 1,
    readable    |-> inbox[stream] # <<>> \/ peerClosed[stream],
    read_closed |-> peerClosed[stream] ]

ClientEvent ==
  [ token       |-> CLIENT,
    readable    |-> inbox[stream] # <<>> \/ peerClosed[stream],
    read_closed |-> peerClosed[stream] ]

\* the match on event.token()
HandlerPc(ev) ==
  IF ev.token = SERVER THEN "server"
  ELSE IF ev.token = CLIENT THEN "client"
  ELSE "unreachable"

\* `return x` / the trailing `None` of next
ReturnNone(why) ==
  /\ pc' = "idle"
  /\ lastRet' = Ret("None", <<>>, why, 0)
  /\ UNCHANGED yielded

\* mutant of ReturnSome: the item is handed out twice
ReturnSome_twice(item, frame) ==
  /\ pc' = "idle"
  /\ lastRet' = Ret(item.kind, item.val, "item", stream)
  /\ yielded' = Append(Append(yielded, [frame |-> frame, kind |-> item.kind]),
                       [frame |-> frame, kind |-> item.kind])

ReturnSome(item, frame) ==
  /\ pc' = "idle"
  /\ lastRet' = Ret(item.kind, item.val, "item", stream)
  /\ yielded' = Append(yielded, [frame |-> frame, kind |-> item.kind])

\* the end of one pass of `for event in &self.listener.events`
Advance ==
  IF evIdx < Len(events)
  THEN /\ evIdx' = evIdx + 1
       /\ pc' = HandlerPc(events[evIdx + 1])
       /\ UNCHANGED << lastRet, yielded >>
  ELSE /\ ReturnNone("events_done")
       /\ UNCHANGED evIdx

(* --------------------------- construction ------------------------------ *)
\* Listener::bind_with_handle + setup: bound, SERVER registered, no iterator
MainInit ==
  /\ is_closed = FALSE
  /\ pc = "new"
  /\ stream = 0
  /\ connection = NoConnection
  /\ events = <<>>
  /\ evIdx = 0
  /\ backlog = <<>>
  /\ connState = [c \in Conns |-> "unused"]
  /\ inbox = [c \in Conns |-> <<>>]
  /\ sent = [c \in Conns |-> 0]
  /\ arrived = [c \in Conns |-> <<>>]
  /\ peerClosed = [c \in Conns |-> FALSE]
  /\ serverEdge = FALSE
  /\ clientEdge = FALSE
  /\ lastRet = NotReturned
  /\ yielded = <<>>
  /\ call = NoCall
  /\ listenerCloseCalled = FALSE

\* the threads that read the handle
Readers == 1..MaxReaders

\* the lock's owner when the writer holds it; reader r holds it as r + 1
WriterId == 1

\* Option<TrackInfo>: None
NoTrack == [some |-> FALSE, title |-> 0, album |-> 0]

\* what a read returns: the value and whether it was copied by this read
ReadResult(val, fresh) == [val |-> val, fresh |-> fresh]

\* a handle right after its creation: empty cell, nobody reading or writing
HandleNew ==
  /\ hcell = NoTrack
  /\ hlock = 0
  /\ hupd = 0
  /\ hwpc = "idle"
  /\ hrpc = [r \in Readers |-> "idle"]
  /\ hbuf = [r \in Readers |-> 0]
  /\ hseen = [r \in Readers |-> ReadResult(NoTrack, FALSE)]


Init ==
  /\ MainInit
  /\ dfields = <<>>
  /\ dframe = <<>>
  /\ dcode = 0
  /\ dout = <<>>
  /\ dpc = "off"
  /\ HandleNew

(* ------------------------- Handle and Listener ------------------------- *)
\* mutant of HandleClose: a second close re-arms the flag
HandleClose_toggle ==
  /\ is_closed' = ~is_closed
  /\ UNCHANGED << pc, stream, connection, events, evIdx, envVars, serverEdge,
                  clientEdge, lastRet, yielded, call,
                  listenerCloseCalled, decVars,
                  handleVars >>

\* Handle::close on the Listener's handle or on any clone (same Arc)
HandleClose ==
  /\ is_closed' = TRUE
  /\ UNCHANGED << pc, stream, connection, events, evIdx, envVars, serverEdge,
                  clientEdge, lastRet, yielded, call,
                  listenerCloseCalled, decVars,
                  handleVars >>

\* Listener::close: the body is empty. It takes &self, so it can only run
\* while no ListenerIter borrows the Listener mutably.
ListenerClose ==
  /\ pc = "new"
  /\ listenerCloseCalled' = TRUE
  /\ UNCHANGED << is_closed, pc, stream, connection, events, evIdx, envVars,
                  serverEdge, clientEdge, lastRet, yielded, call,
                  decVars,
                  handleVars >>

\* Listener::incoming / ListenerIter::from: stream None, connection None
Incoming ==
  /\ pc = "new"
  /\ pc' = "idle"
  /\ stream' = 0
  /\ connection' = NoConnection
  /\ UNCHANGED << is_closed, events, evIdx, envVars, serverEdge, clientEdge,
                  lastRet, yielded, call, listenerCloseCalled,
                  decVars,
                  handleVars >>

(* -------------------------- ListenerIter::next ------------------------- *)
\* the consumer calls next
CallNext ==
  /\ pc = "idle"
  /\ pc' = "poll"
  /\ call' = [closed |-> is_closed, lclosed |-> listenerCloseCalled,
              accepted |-> FALSE, read |-> FALSE]
  /\ lastRet' = NotReturned
  /\ UNCHANGED << is_closed, stream, connection, events, evIdx, envVars,
                  serverEdge, clientEdge, yielded,
                  listenerCloseCalled, decVars,
                  handleVars >>

\* the batches poll can return: every token with a pending edge, either order
ReadyBatches ==
  IF serverEdge /\ clientEdge
  THEN { <<ServerEvent, ClientEvent>>, <<ClientEvent, ServerEvent>> }
  ELSE IF serverEdge THEN { <<ServerEvent>> }
  ELSE IF clientEdge THEN { <<ClientEvent>> }
  ELSE {}

\* poll.poll(&mut events, None) returns Ok: blocks until some token is ready
Poll ==
  /\ pc = "poll"
  /\ \E batch \in ReadyBatches :
       /\ events' = batch
       /\ evIdx' = 1
       /\ pc' = HandlerPc(batch[1])
  /\ serverEdge' = FALSE
  /\ clientEdge' = FALSE
  /\ UNCHANGED << is_closed, stream, connection, envVars, lastRet,
                  yielded, call, listenerCloseCalled, decVars,
                  handleVars >>

\* poll.poll(..).ok()? on an Err: next returns None
PollError ==
  /\ pc = "poll"
  /\ ReturnNone("poll_err")
  /\ UNCHANGED << is_closed, stream, connection, events, evIdx, envVars,
                  serverEdge, clientEdge, call, listenerCloseCalled, decVars,
                  handleVars >>

\* SERVER arm, top of the accept loop: `if should_close() { break; }`, and
\* after the break the `if let Some(stream)` re-registers the stream already
\* held, which the registry refuses (`.ok()?` returns None)
ServerCheck ==
  /\ pc = "server"
  /\ IF should_close
     THEN IF stream # 0 THEN ReturnNone("register_err") /\ UNCHANGED evIdx
          ELSE Advance
     ELSE /\ pc' = "accept"
          /\ UNCHANGED << evIdx, lastRet, yielded >>
  /\ UNCHANGED << is_closed, stream, connection, events, envVars, serverEdge,
                  clientEdge, call, listenerCloseCalled, decVars,
                  handleVars >>

\* mutant of AcceptOk: the stream held before stays open and registered
AcceptOk_keeping(c) ==
  /\ stream' = c
  /\ connState' = [x \in Conns |->
                     IF x = c THEN "accepted"
                     ELSE connState[x]]
  /\ inbox' = [x \in Conns |-> IF x = stream THEN <<>> ELSE inbox[x]]
  /\ sent' = [x \in Conns |-> IF x = stream THEN 0 ELSE sent[x]]
  /\ arrived' = [x \in Conns |-> IF x = stream THEN <<>> ELSE arrived[x]]
  /\ peerClosed' = [x \in Conns |-> IF x = stream THEN FALSE ELSE peerClosed[x]]
  /\ backlog' = Tail(backlog)
  /\ clientEdge' = TRUE
  /\ connection' = FreshConnection
  /\ call' = [call EXCEPT !.accepted = TRUE]
  /\ IF evIdx < Len(events)
     THEN /\ evIdx' = evIdx + 1
          /\ pc' = HandlerPc(events[evIdx + 1])
          /\ UNCHANGED lastRet
     ELSE /\ pc' = "idle"
          /\ lastRet' = Ret("None", <<>>, "events_done", 0)
          /\ UNCHANGED evIdx
  /\ yielded' = <<>>

\* accept() returned a stream: it replaces (and drops) the one held, is
\* registered as CLIENT for READABLE | WRITABLE (a new socket is writable at
\* once) and gets a WebsocketConnection with no socket yet
AcceptOk(c) ==
  /\ stream' = c
  /\ connState' = [x \in Conns |->
                     IF x = c THEN "accepted"
                     ELSE IF x = stream THEN "dropped" ELSE connState[x]]
  /\ inbox' = [x \in Conns |-> IF x = stream THEN <<>> ELSE inbox[x]]
  /\ sent' = [x \in Conns |-> IF x = stream THEN 0 ELSE sent[x]]
  /\ arrived' = [x \in Conns |-> IF x = stream THEN <<>> ELSE arrived[x]]
  /\ peerClosed' = [x \in Conns |-> IF x = stream THEN FALSE ELSE peerClosed[x]]
  /\ backlog' = Tail(backlog)
  /\ clientEdge' = TRUE
  /\ connection' = FreshConnection
  /\ call' = [call EXCEPT !.accepted = TRUE]
  /\ IF evIdx < Len(events)
     THEN /\ evIdx' = evIdx + 1
          /\ pc' = HandlerPc(events[evIdx + 1])
          /\ UNCHANGED lastRet
     ELSE /\ pc' = "idle"
          /\ lastRet' = Ret("None", <<>>, "events_done", 0)
          /\ UNCHANGED evIdx
  /\ yielded' = <<>>

\* SERVER arm, `self.listener.listener.accept().ok()` and what follows it
Accept ==
  /\ pc = "accept"
  /\ IF backlog = <<>>
     THEN \* WouldBlock: `continue`
          /\ pc' = "server"
          /\ UNCHANGED << stream, connection, envVars, clientEdge, call, evIdx,
                          lastRet, yielded >>
     ELSE IF connState[Head(backlog)] = "aborted"
     THEN \* the peer gave up before the accept: Err, `continue`
          /\ pc' = "server"
          /\ backlog' = Tail(backlog)
          /\ connState' = [connState EXCEPT ![Head(backlog)] = "refused"]
          /\ UNCHANGED << stream, connection, inbox, sent, arrived, peerClosed,
                          clientEdge, call, evIdx, lastRet, yielded >>
     ELSE AcceptOk(Head(backlog))
  /\ UNCHANGED << is_closed, events, serverEdge,
                  listenerCloseCalled, decVars,
                  handleVars >>

\* CLIENT arm, top of the receive loop
ClientCheck ==
  /\ pc = "client"
  /\ LET event == events[evIdx]
     IN IF ~event.readable \/ event.read_closed \/ should_close
        THEN Advance
        ELSE /\ pc' = IF connection.some THEN "init" ELSE "client"
             /\ UNCHANGED << evIdx, lastRet, yielded >>
  /\ UNCHANGED << is_closed, stream, connection, events, envVars, serverEdge,
                  clientEdge, call, listenerCloseCalled, decVars,
                  handleVars >>

\* WebsocketConnection::init, top of its loop: `if self.socket.is_none()`
InitCheck ==
  /\ pc = "init"
  /\ pc' = IF connection.socket = "none" THEN "handshake" ELSE "read"
  /\ UNCHANGED << is_closed, stream, connection, events, evIdx, envVars,
                  serverEdge, clientEdge, lastRet, yielded, call,
                  listenerCloseCalled, decVars,
                  handleVars >>

\* WebsocketConnection::init, `self.socket = accept(self.stream).ok(); continue`:
\* the upgrade request is read off the stream; anything else, or nothing, fails
Handshake ==
  /\ pc = "handshake"
  /\ pc' = "init"
  /\ IF inbox[stream] = <<>>
     THEN UNCHANGED << connection, inbox >>
     ELSE /\ inbox' = [inbox EXCEPT ![stream] = Tail(@)]
          /\ connection' =
               IF Head(inbox[stream]) = HsOk
               THEN [connection EXCEPT !.socket = "open"]
               ELSE connection
  /\ UNCHANGED << is_closed, stream, events, evIdx, backlog, connState, sent,
                  arrived,
                  peerClosed, serverEdge, clientEdge, lastRet,
                  yielded, call, listenerCloseCalled, decVars,
                  handleVars >>

\* mutant of ReadFrame: an undecodable frame closes the connection
ReadFrame_closing(frame) ==
  LET item == IF frame.k = "text" THEN DecodeText(frame.body) ELSE ItemInvalid
  IN /\ ReturnSome(item, frame)
     /\ connection' = IF item.kind = "Err"
                      THEN [connection EXCEPT !.socket = "closed"]
                      ELSE connection

\* WebsocketConnection::next on a frame read_message returned: the match on
\* Message::Text and the `_` arm (binary, ping, pong)
ReadFrame(frame) ==
  /\ ReturnSome(IF frame.k = "text" THEN DecodeText(frame.body) ELSE ItemInvalid,
                frame)
  /\ UNCHANGED connection

\* WebsocketConnection::next after init: read_message().ok()? and the match;
\* a None result makes the CLIENT loop `continue`
Read ==
  /\ pc = "read"
  /\ IF connection.socket = "closed" \/ inbox[stream] = <<>>
     THEN \* Err (closed, WouldBlock, EOF): None
          /\ pc' = "client"
          /\ UNCHANGED << connection, inbox, call, lastRet, yielded >>
     ELSE /\ inbox' = [inbox EXCEPT ![stream] = Tail(@)]
          /\ call' = [call EXCEPT !.read = TRUE]
          /\ IF Head(inbox[stream]).k = "close"
             THEN \* Message::Close(_) => None
                  /\ pc' = "client"
                  /\ connection' = [connection EXCEPT !.socket = "closed"]
                  /\ UNCHANGED << lastRet, yielded >>
             ELSE ReadFrame(Head(inbox[stream]))
  /\ UNCHANGED << is_closed, stream, events, evIdx, backlog, connState, sent,
                  arrived,
                  peerClosed, serverEdge, clientEdge,
                  listenerCloseCalled, decVars,
                  handleVars >>

(* ------------------------------ the peers ------------------------------ *)
\* a producer opens a TCP connection to the bound port
Connect(c) ==
  /\ connState[c] = "unused"
  /\ \A x \in Conns : x < c => connState[x] # "unused"
  /\ connState' = [connState EXCEPT ![c] = "pending"]
  /\ backlog' = Append(backlog, c)
  /\ serverEdge' = TRUE
  /\ UNCHANGED << is_closed, pc, stream, connection, events, evIdx, inbox, sent,
                  arrived,
                  peerClosed, clientEdge, lastRet, yielded, call,
                  listenerCloseCalled, decVars,
                  handleVars >>

\* a producer gives up a connection that was not accepted yet
PeerAbort(c) ==
  /\ connState[c] = "pending"
  /\ connState' = [connState EXCEPT ![c] = "aborted"]
  /\ UNCHANGED << is_closed, pc, stream, connection, events, evIdx, backlog,
                  inbox, sent, arrived, peerClosed, serverEdge, clientEdge,
                  lastRet, yielded, call, listenerCloseCalled, decVars,
                  handleVars >>

\* what a producer may send next: the upgrade request first, then frames
Sendable(c) ==
  IF sent[c] = 0 THEN Handshakes
  ELSE IF sent[c] <= MaxFrames THEN AppItems
  ELSE {}

\* a producer sends the upgrade request or a frame; nothing follows a Close.
\* What a producer sends before its connection is accepted is read like what
\* it sends right after, so sends start at the accept.
PeerSend(c, item) ==
  /\ connState[c] = "accepted"
  /\ ~peerClosed[c]
  /\ item \in Sendable(c)
  /\ inbox' = [inbox EXCEPT ![c] = Append(@, item)]
  /\ sent' = [sent EXCEPT ![c] = IF item = CloseFrame THEN MaxFrames + 1 ELSE @ + 1]
  /\ arrived' = [arrived EXCEPT ![c] = Append(@, item)]
  /\ clientEdge' = (clientEdge \/ stream = c)
  /\ UNCHANGED << is_closed, pc, stream, connection, events, evIdx, backlog,
                  connState, peerClosed, serverEdge, lastRet, yielded,
                  call, listenerCloseCalled, decVars,
                  handleVars >>

\* a producer shuts the TCP stream (no Close frame, or after one)
PeerClose(c) ==
  /\ connState[c] = "accepted"
  /\ ~peerClosed[c]
  /\ peerClosed' = [peerClosed EXCEPT ![c] = TRUE]
  /\ clientEdge' = (clientEdge \/ stream = c)
  /\ UNCHANGED << is_closed, pc, stream, connection, events, evIdx, backlog,
                  connState, inbox, sent, arrived, serverEdge, lastRet,
                  yielded, call, listenerCloseCalled, decVars,
                  handleVars >>

(* --------------------------- specifications ---------------------------- *)
Next ==
  \/ HandleClose
  \/ ListenerClose
  \/ Incoming
  \/ CallNext
  \/ Poll
  \/ PollError
  \/ ServerCheck
  \/ Accept
  \/ ClientCheck
  \/ InitCheck
  \/ Handshake
  \/ Read
  \/ \E c \in Conns : Connect(c)
  \/ \E c \in Conns : PeerAbort(c)
  \/ \E c \in Conns : \E item \in Handshakes \cup AppItems : PeerSend(c, item)
  \/ \E c \in Conns : PeerClose(c)

Spec == Init /\ [][Next]_vars

\* one step of the consumer thread (its poll not failing)
ThreadStep ==
  \/ Incoming
  \/ CallNext
  \/ Poll
  \/ ServerCheck
  \/ Accept
  \/ ClientCheck
  \/ InitCheck
  \/ Handshake
  \/ Read

\* the consumer thread keeps running: it calls next again after every return
\* and takes each step of next that it can take. The thread is at one place
\* at a time, so this is weak fairness of each of its steps.
Fairness == WF_vars(ThreadStep)

\* what the producers send in the runs of FairSpec
FairItems == { HsOk, HsBad, Item("text", TextGood), CloseFrame }

\* the runs in which nobody requests cancellation and poll never fails
FairNext ==
  \/ ThreadStep
  \/ \E c \in Conns : Connect(c)
  \/ \E c \in Conns : PeerAbort(c)
  \/ \E c \in Conns : \E item \in FairItems : PeerSend(c, item)
  \/ \E c \in Conns : PeerClose(c)

FairSpec == Init /\ [][FairNext]_vars /\ Fairness

(* ----------------------- decoder specification ------------------------- *)
\* "4294967295" (u32::MAX), "4294967296" (one more), signs, leading zeros
BigTexts ==
  { <<"4", "2", "9", "4", "9", "6", "7", "2", "9", "5">>,
    <<"4", "2", "9", "4", "9", "6", "7", "2", "9", "6">>,
    <<"+", "2">>, <<"+">>, <<"-", "2">>, <<"0", "0", "2">> }

\* the KIND tag of the tagged positional grammar
TrackChangedTag ==
  <<"T", "R", "A", "C", "K", "_", "C", "H", "A", "N", "G", "E", "D">>

\* the field lists the decoder specification joins into frames
GenFields ==
  UNION { [1..n -> FieldTexts] : n \in 0..MaxFields }
  \cup { <<b>> \o rest :
           b \in BigTexts, rest \in [1..(MinFields - 1) -> {<<"x">>, <<"2">>}] }
  \cup { <<TrackChangedTag>> \o rest :
           rest \in UNION { [1..n -> {<<"2">>, <<"x">>}] : n \in 0..(MaxFields + 2) } }

Codes == 0..MaxCode \cup {999, Limb}

DecodeInit ==
  /\ MainInit
  /\ HandleNew
  /\ dout = <<>>
  /\ \/ dfields \in GenFields /\ dframe = Join(dfields) /\ dcode = 0 /\ dpc = "frame"
     \/ dfields = <<>> /\ dframe = <<>> /\ dcode \in Codes /\ dpc = "code"

\* one text frame through the Message::Text arm
DecodeFrame ==
  /\ dpc = "frame"
  /\ dout' = <<DecodeText(dframe)>>
  /\ dpc' = "frame_done"
  /\ UNCHANGED << is_closed, pc, stream, connection, events, evIdx, envVars,
                  serverEdge, clientEdge, lastRet, yielded, call,
                  listenerCloseCalled, dfields, dframe, dcode, handleVars >>

\* one code through State::from_u32
ConvertCode ==
  /\ dpc = "code"
  /\ dout' = <<from_u32(dcode)>>
  /\ dpc' = "code_done"
  /\ UNCHANGED << is_closed, pc, stream, connection, events, evIdx, envVars,
                  serverEdge, clientEdge, lastRet, yielded, call,
                  listenerCloseCalled, dfields, dframe, dcode, handleVars >>

DecodeNext == DecodeFrame \/ ConvertCode

DecodeSpec == DecodeInit /\ [][DecodeNext]_vars

(* ------------------------------- claims -------------------------------- *)
\* C1 (as claimed): next returns None only when cancellation was requested or
\* a transport error occurred (poll or registration failed); accepting a
\* connection or the end of the held one never makes it return None.
C1_NoneOnlyOnCancelOrError ==
  lastRet.kind = "None" =>
    (lastRet.closed \/ lastRet.why \in {"poll_err", "register_err"})

\* the held, handshaken connection was shut by its peer, by a Close frame or
\* at TCP level
HeldIsGone ==
  /\ stream # 0
  /\ connection.socket # "none"
  /\ (peerClosed[stream] \/ connection.socket = "closed")

\* a connection waits in the accept queue and its peer has not given it up
FreshWaiting == \E c \in Conns : connState[c] = "pending"

\* C2 (as claimed): if cancellation is never requested and the consumer keeps
\* calling next, then once the held connection is gone and a fresh connection
\* has arrived (it waits in the accept queue, its readiness not polled yet),
\* the Listener eventually moves on to serve it: the dead connection is
\* replaced (or no connection waits any more).
C2_ReconnectServes ==
  (HeldIsGone /\ FreshWaiting /\ serverEdge)
    ~> (~HeldIsGone \/ ~FreshWaiting \/ is_closed)

\* C3 (as claimed): a call of next that begins after Listener::close() has
\* been called accepts no connection, reads no frame and returns None.
C3_ListenerCloseStops ==
  call.lclosed =>
    /\ ~call.accepted
    /\ ~call.read
    /\ lastRet.kind \in {"Pending", "None"}

\* C4: a call of next that begins after Handle::close() accepts no
\* connection, reads no frame and returns nothing but None; the flag stays
\* set, so the same holds for every later call.
C4_ClosedIsTerminal ==
  call.closed =>
    /\ is_closed
    /\ ~call.accepted
    /\ ~call.read
    /\ lastRet.kind \in {"Pending", "None"}

\* C4 witness: a call that began after the close has returned None while a
\* frame waits unread on the open connection and a connection waits for accept
C4_Witness ==
  /\ call.closed
  /\ pc = "idle"
  /\ lastRet.kind = "None"
  /\ stream # 0
  /\ connection.socket = "open"
  /\ inbox[stream] # <<>>
  /\ backlog # <<>>

\* a frame that fails to decode: a non-text frame or a text with too few fields
Undecodable(frame) ==
  frame.k # "text" \/ Cardinality({i \in 1..Len(frame.body) : frame.body[i] = Semi}) < 5

\* C5: every frame returned from the held connection is Err(Invalid) exactly
\* when it is undecodable, whatever was returned before it on that
\* connection; and when next has returned an Err the iterator still holds
\* the same stream with its socket open.
C5_DecodeErrorKeepsConnection ==
  /\ \A i \in 1..Len(yielded) :
       yielded[i].kind = IF Undecodable(yielded[i].frame) THEN "Err" ELSE "Ok"
  /\ (pc = "idle" /\ lastRet.kind = "Err") =>
       /\ lastRet.val = <<"Invalid">>
       /\ stream = lastRet.conn
       /\ connection = [some |-> TRUE, socket |-> "open"]
       /\ yielded # <<>>
       /\ yielded[Len(yielded)].kind = "Err"

\* C5 witness: on one connection a binary frame came back as Err and the
\* well-formed text frame after it as Ok
C5_Witness ==
  /\ Len(yielded) = 2
  /\ yielded[1].frame = Binary
  /\ yielded[1].kind = "Err"
  /\ yielded[2].frame = Item("text", TextGood)
  /\ yielded[2].kind = "Ok"
  /\ lastRet.kind = "Ok"

\* the state a well-formed code text stands for
StateOfText(f) ==
  IF f = <<"2">> THEN "Playing" ELSE IF f = <<"1">> THEN "Paused" ELSE "Stopped"

NoneText == <<"N", "O", "N", "E">>

\* C7 (as claimed): in a decoded track, cover_url and background_url are
\* None when the field text is "NONE" and Some(text) otherwise.
C7_NoneSentinel ==
  (dpc = "frame_done" /\ dout[1].kind = "Ok") =>
    /\ dout[1].val[1].cover_url =
         IF dfields[5] = NoneText THEN None ELSE Some(dfields[5])
    /\ dout[1].val[1].background_url =
         IF dfields[6] = NoneText THEN None ELSE Some(dfields[6])

\* C8: a frame with enough fields always decodes to Ok, and when its state
\* code does not parse as a u32 the state is Stopped.
C8_NumericLeniency ==
  (dpc = "frame_done" /\ Len(dfields) >= 6) =>
    /\ dout[1].kind = "Ok"
    /\ (\/ dfields[1] = <<>>
        \/ \E i \in 1..Len(dfields[1]) : dfields[1][i] \notin DigitChars \cup {"+"}
        \/ ParseU32(dfields[1]) < 0)
       => dout[1].val[1].state = "Stopped"

\* C8 witness: "x" as the state code of a six-field frame decoded to Stopped
C8_Witness ==
  /\ dpc = "frame_done"
  /\ Len(dfields) = 6
  /\ dfields[1] = <<"x">>
  /\ dout[1].kind = "Ok"
  /\ dout[1].val[1].state = "Stopped"

\* C9: from_u32 maps 2 to Playing, 1 to Paused and every other code to
\* Stopped; it has no failing result.
C9_FromU32Total ==
  dpc = "code_done" =>
    /\ dout[1] \in {"Playing", "Paused", "Stopped"}
    /\ dout[1] = "Playing" <=> dcode = 2
    /\ dout[1] = "Paused" <=> dcode = 1

\* C9 witness: the out-of-range code 999 came out as Stopped
C9_Witness ==
  dpc = "code_done" /\ dcode = 999 /\ dout[1] = "Stopped"

\* the upgrade request of the held connection was read and the handshake failed
HandshakeFailed ==
  /\ stream # 0
  /\ connection.socket = "none"
  /\ sent[stream] > 0
  /\ (inbox[stream] = <<>> \/ Head(inbox[stream]) \notin Handshakes)

\* an accept() returned Err
AcceptFailed == \E d \in Conns : connState[d] = "refused"

\* C10 (as claimed): if cancellation is never requested and the consumer
\* keeps calling next, then after an accept or a handshake has failed a
\* connection that waits in the accept queue is eventually served.
C10_FailureDoesNotWedge ==
  ((HandshakeFailed \/ AcceptFailed) /\ FreshWaiting) ~> (~FreshWaiting \/ is_closed)

\* read_message() is about to fail on the established connection: the peer
\* shut the TCP stream without a Close frame and nothing is left to read, or
\* the socket was closed by a Close frame read earlier
ReadError ==
  /\ pc = "read"
  /\ \/ connection.socket = "closed"
     \/ connection.socket = "open" /\ inbox[stream] = <<>> /\ peerClosed[stream]

ArrivedFrames ==
  IF stream = 0 \/ arrived[stream] = <<>> THEN <<>> ELSE Tail(arrived[stream])

\* C12: the items returned from the held connection are, one for one and in
\* order, the first frames that arrived on it: none is reordered, repeated
\* or made up.
C12_ArrivalOrder ==
  /\ Len(yielded) <= Len(ArrivedFrames)
  /\ \A i \in 1..Len(yielded) : yielded[i].frame = ArrivedFrames[i]

\* C12 witness: two different frames arrived and both were returned, in the
\* order of their arrival
C12_Witness ==
  /\ Len(yielded) = 2
  /\ yielded[1].frame = Item("text", TextShort)
  /\ yielded[2].frame = Item("text", TextGood)
  /\ inbox[stream] = <<>>
  /\ pc = "idle"

\* the accepted streams that are open, hence registered with the poll (a
\* TcpStream leaves the registry when it is dropped)
Registered == {c \in Conns : connState[c] = "accepted"}

\* C13: at most one accepted stream is open and registered at any time, and
\* it is the one the iterator's stream/connection pair refers to.
C13_OneLiveConnection ==
  /\ Cardinality(Registered) <= 1
  /\ Registered = IF stream = 0 THEN {} ELSE {stream}
  /\ connection.some <=> stream # 0

\* C13 witness: a second connection was accepted while the first was held,
\* and only the second is open
C13_Witness ==
  /\ stream = 2
  /\ connState[1] = "dropped"
  /\ connState[2] = "accepted"
  /\ connection.socket = "open"

\* C14: the flag starts unset and no step of any operation takes it from
\* set back to unset.
C14_FlagMonotonic == ~is_closed /\ [][is_closed => is_closed']_vars

\* C14 witness: the flag was set while a call of next was reading from an
\* open connection, so steps of ListenerIter and WebsocketConnection follow
\* with the flag set
C14_Witness ==
  /\ is_closed
  /\ ~call.closed
  /\ pc = "read"
  /\ connection.socket = "open"
  /\ inbox[stream] # <<>>

(* ------------------------ handle specification ------------------------- *)
\* the state of the Listener, its iterator and the peers
listenerVars ==
  << is_closed, pc, stream, connection, events, evIdx, envVars, serverEdge,
     clientEdge, lastRet, yielded, call, listenerCloseCalled >>

\* the writer (the background delivery loop) takes the cell's lock to store
\* a newly decoded track
WriterBegin ==
  /\ hwpc = "idle"
  /\ hupd < MaxUpdates
  /\ hlock = 0
  /\ hlock' = WriterId
  /\ hupd' = hupd + 1
  /\ hwpc' = "title"
  /\ UNCHANGED << hcell, hrpc, hbuf, hseen, listenerVars, decVars >>

\* the writer overwrites the cell: the first field of the new value
WriterTitle ==
  /\ hwpc = "title"
  /\ hcell' = [hcell EXCEPT !.some = TRUE, !.title = hupd]
  /\ hwpc' = "album"
  /\ UNCHANGED << hlock, hupd, hrpc, hbuf, hseen, listenerVars, decVars >>

\* the writer overwrites the cell: the last field, then it unlocks
WriterAlbum ==
  /\ hwpc = "album"
  /\ hcell' = [hcell EXCEPT !.album = hupd]
  /\ hlock' = 0
  /\ hwpc' = "idle"
  /\ UNCHANGED << hupd, hrpc, hbuf, hseen, listenerVars, decVars >>

\* mutant of ReaderTry: the reader copies the cell without looking at the lock
ReaderTry_nolock(r) ==
  /\ hrpc[r] = "idle"
  /\ hrpc' = [hrpc EXCEPT ![r] = "title"]
  /\ UNCHANGED << hcell, hlock, hupd, hwpc, hbuf, hseen, listenerVars, decVars >>

\* read(): a non-blocking try-lock. If the lock is taken the read returns
\* the value this reader saw last (or none yet), else it locks and copies
ReaderTry(r) ==
  /\ hrpc[r] = "idle"
  /\ IF hlock # 0
     THEN /\ hseen' = [hseen EXCEPT ![r] = ReadResult(@.val, FALSE)]
          /\ UNCHANGED << hlock, hrpc >>
     ELSE /\ hlock' = r + 1
          /\ hrpc' = [hrpc EXCEPT ![r] = "title"]
          /\ UNCHANGED hseen
  /\ UNCHANGED << hcell, hupd, hwpc, hbuf, listenerVars, decVars >>

\* the reader copies the first field
ReaderTitle(r) ==
  /\ hrpc[r] = "title"
  /\ hbuf' = [hbuf EXCEPT ![r] = hcell.title]
  /\ hrpc' = [hrpc EXCEPT ![r] = "album"]
  /\ UNCHANGED << hcell, hlock, hupd, hwpc, hseen, listenerVars, decVars >>

\* the reader copies the last field, unlocks and returns the copy
ReaderAlbum(r) ==
  /\ hrpc[r] = "album"
  /\ hseen' = [hseen EXCEPT ![r] =
                 ReadResult([some |-> hcell.some, title |-> hbuf[r],
                             album |-> hcell.album], TRUE)]
  /\ hbuf' = [hbuf EXCEPT ![r] = 0]
  /\ hlock' = IF hlock = r + 1 THEN 0 ELSE hlock
  /\ hrpc' = [hrpc EXCEPT ![r] = "idle"]
  /\ UNCHANGED << hcell, hupd, hwpc, listenerVars, decVars >>

HandleNext ==
  \/ WriterBegin
  \/ WriterTitle
  \/ WriterAlbum
  \/ \E r \in Readers : ReaderTry(r)
  \/ \E r \in Readers : ReaderTitle(r)
  \/ \E r \in Readers : ReaderAlbum(r)

HandleSpec == Init /\ [][HandleNext]_vars

\* C15: a read returns no value as long as no update has begun, and every
\* value a read returns has all its fields from one and the same update.
C15_SnapshotWhole ==
  \A r \in Readers :
    /\ hupd = 0 => ~hseen[r].val.some
    /\ ~hseen[r].val.some => hseen[r].val = NoTrack
    /\ hseen[r].val.some =>
         /\ hseen[r].val.title = hseen[r].val.album
         /\ hseen[r].val.title \in 1..hupd

\* C15 witness: one reader copied the second update while the other, finding
\* the lock taken, returned the first update it had seen before
C15_Witness ==
  /\ hupd >= 2
  /\ hseen[1] = ReadResult([some |-> TRUE, title |-> 2, album |-> 2], TRUE)
  /\ hseen[2] = ReadResult([some |-> TRUE, title |-> 1, album |-> 1], FALSE)

(* ---------------------- cancellation under fairness -------------------- *)
\* the runs of FairSpec, and Handle::close() may be called at any time
CancelNext ==
  \/ FairNext
  \/ HandleClose

CancelSpec == Init /\ [][CancelNext]_vars /\ Fairness

\* a call of next is past its poll: it runs one of its retry loops
InRetryLoop == pc \in {"server", "accept", "client", "init", "handshake", "read"}

\* C16 (as claimed): once Handle::close() has been called, a call of next
\* that is in one of its retry loops (accept, handshake, receive) returns.
C16_CancelEndsRetryLoops == (is_closed /\ InRetryLoop) ~> (pc = "idle")

\* a well-formed text frame is the next to be read on connection c, which is
\* held, handshaken and up, and n items were returned from c so far
GoodFrameWaits(c, n) ==
  /\ stream = c
  /\ connection.socket = "open"
  /\ ~peerClosed[c]
  /\ inbox[c] # <<>>
  /\ Head(inbox[c]) = Item("text", TextGood)
  /\ Len(yielded) = n

\* C17 (as claimed): if cancellation is never requested and the consumer
\* keeps calling next, a well-formed text frame that waits on the live
\* connection is eventually returned as an Ok item, unless the connection
\* goes down or is replaced first.
C17_EveryFrameYielded ==
  \A c \in Conns : \A n \in 0..MaxFrames :
    GoodFrameWaits(c, n) ~>
      \/ Len(yielded) > n /\ yielded[n + 1].kind = "Ok"
      \/ stream # c
      \/ peerClosed[c]
      \/ is_closed

\* next is in the CLIENT arm's loop and its connection is dead: a Close frame
\* was read, or the peer shut the stream and nothing is left to read
SpinsOnDead ==
  /\ pc = "client"
  /\ stream # 0
  /\ \/ connection.socket = "closed"
     \/ connection.socket = "open" /\ peerClosed[stream] /\ inbox[stream] = <<>>

\* C18 (as claimed): a call of next whose connection turned out dead (a
\* Close frame, a failed read) leaves the CLIENT arm's loop and returns.
C18_NextTerminates == SpinsOnDead ~> (pc = "idle")

\* C19: every event a poll returned carries the token SERVER or CLIENT, and
\* next never arrives at the `unreachable!` arm of its match.
C19_OnlyKnownTokens ==
  /\ \A i \in 1..Len(events) : events[i].token \in {SERVER, CLIENT}
  /\ pc # "unreachable"

\* C19 witness: one poll returned an event for each token and next has gone
\* through the CLIENT arm and into the SERVER arm
C19_Witness ==
  /\ Len(events) = 2
  /\ events[1].token = CLIENT
  /\ events[2].token = SERVER
  /\ evIdx = 2
  /\ pc = "accept"

====
